---- MODULE Spec2Model ----
(***************************************************************************)
(* A model of the IDA*-style solver of src/Solver/IDAstarSolver.h and of   *)
(* the counting functions of src/PatternDatabases/math.cpp.                *)
(*                                                                         *)
(* The cube type T (RubiksCube.h) is a collaborator of the solver: it is   *)
(* modelled from its interface contract as a small reversible puzzle with  *)
(* the same alphabet of 18 moves (6 faces, 3 turn amounts each).           *)
(*                                                                         *)
(* Two statements of the header are read as what they say they do:        *)
(* `pq.push_back(make_pair(start,0))` (line 53) puts the start node into   *)
(* the queue, and `bound = IDAstar(bound)` (line 106) stores the integer   *)
(* of the returned pair in bound and leaves p untouched.                   *)
(***************************************************************************)
EXTENDS Integers, Sequences, FiniteSets, TLC

VARIABLES
    rubiksCube,   \* T rubiksCube: the solver's root state (public field)
    moves,        \* vector<MOVE> moves
    move_done,    \* unordered_map<T,MOVE> move_done
    visited,      \* unordered_map<T,bool> visited
    pq,           \* IDAstar's local priority queue, in the order pop() removes
    next_bound,   \* IDAstar's local next_bound
    ibound,       \* IDAstar's parameter bound
    site,         \* which call of solve() the running IDAstar call is
    bound,        \* solve's local bound
    p,            \* solve's local p, the pair returned by the first call
    solved_cube,  \* solve's local solved_cube
    curr_cube,    \* solve's local curr_cube
    pc,           \* position of the control flow
    tie,          \* how the heap orders elements the comparator ties
    root0,        \* history: rubiksCube when the running solve() began
    ref,          \* history: what exhaustive search says of root0
    iters,        \* history: IDAstar calls made by the running solve()
    prevBound,    \* history: bound of the previous IDAstar call of this solve()
    pruned,       \* history: depth+estimate of the successors pruned in this call
    startEmpty,   \* history: were visited and move_done empty when the call began
    ret,          \* history: what the last finished IDAstar call returned
    lastExh,      \* history: integer of the previous unsolved return of this solve()
    stalled,      \* history: two successive unsolved returns gave the same integer
    solveCalls,   \* history: number of solve() calls made on this solver
    marks,        \* history: the nodes marked visited by the running call, in order
    skipped,      \* history: the running call popped a node already visited
    rolledBack,   \* history: every probe so far restored the expanded node's cube
    fn, arg_n, arg_k, \* math.cpp: the function called and its arguments
    result        \* math.cpp: the outcome of the call

solverVars == <<rubiksCube, moves, move_done, visited, pq, next_bound, ibound,
                site, bound, p, solved_cube, curr_cube, pc, tie, root0, ref,
                iters, prevBound, pruned, startEmpty, ret, lastExh, stalled, solveCalls,
                marks, skipped, rolledBack>>
mathVars == <<fn, arg_n, arg_k, result>>
vars == <<solverVars, mathVars>>

----------------------------------------------------------------------------
(* Bounds of the model *)

MaxIters == 4     \* the history counter iters saturates here
MaxSolves == 2    \* solve() calls made on one solver object
MaxPath == 4      \* longest move list the reconstruction loop may collect
MaxN == 36        \* arguments of factorial, pick and choose range over 0..MaxN
MaxBound == 3     \* IDAstar called alone gets the bounds 1..MaxBound and 100
MaxEst == 2       \* depths and estimates of the node pairs compareCube is tried on

(* Program constants *)

NumMoves == 18          \* for (int i=0;i<18;i++)
DefaultNextBound == 100 \* int next_bound = 100
InitialBound == 1       \* int bound = 1

Min(a, b) == IF a < b THEN a ELSE b

----------------------------------------------------------------------------
(* The cube collaborator: three axes, each a cycle of four positions, and  *)
(* a twist no move changes.  Faces 2a and 2a+1 turn axis a+1 in opposite   *)
(* directions; move 3f+t is face f turned by amount t (quarter, inverse    *)
(* quarter, half), the order of the MOVE enumeration.                      *)

Cubes == (0..3) \X (0..3) \X (0..3) \X (0..1)

SolvedCube == <<0, 0, 0, 0>>

Moves == 0..(NumMoves - 1)

Face(m) == m \div 3
Turn(m) == m % 3
Axis(m) == (Face(m) \div 2) + 1

Delta(m) ==
    LET q == IF Turn(m) = 0 THEN 1 ELSE IF Turn(m) = 1 THEN 3 ELSE 2
    IN  IF Face(m) % 2 = 0 THEN q ELSE (4 - q) % 4

\* cube.move(m)
Move(c, m) == [c EXCEPT ![Axis(m)] = (@ + Delta(m)) % 4]

\* the move that undoes m: X <-> X', X2 <-> X2
InverseMove(m) ==
    IF Turn(m) = 0 THEN m + 1 ELSE IF Turn(m) = 1 THEN m - 1 ELSE m

\* cube.invert(m)
Invert(c, m) == Move(c, InverseMove(m))

\* cube.isSolved()
isSolved(c) == c = SolvedCube

----------------------------------------------------------------------------
(* The solver's containers *)

\* an unordered_map with no entries
EmptyMap == [c \in {} |-> 0]

\* operator[] on a missing key inserts a value-initialised entry
Touch(map, c, dflt) == IF c \in DOMAIN map THEN map ELSE map @@ (c :> dflt)

\* map[c] = v
Store(map, c, v) == [x \in DOMAIN map \cup {c} |-> IF x = c THEN v ELSE map[x]]

\* struct Node, paired with the move done to reach it
Node(cube, depth, estimate, mv) ==
    [cube |-> cube, depth |-> depth, estimate |-> estimate, mv |-> mv]

\* a comparator that looks at the estimates alone
compareCubeEstimateOnly(p1, p2) == p1.estimate > p2.estimate

\* a comparator that lets the costlier node leave first
compareCubeReversed(p1, p2) ==
    IF p1.depth + p1.estimate = p2.depth + p2.estimate
    THEN p1.estimate < p2.estimate
    ELSE p1.depth + p1.estimate < p2.depth + p2.estimate

\* compareCube: TRUE when p1 is to leave the queue after p2
compareCube(p1, p2) ==
    IF p1.depth + p1.estimate = p2.depth + p2.estimate
    THEN p1.estimate > p2.estimate
    ELSE p1.depth + p1.estimate > p2.depth + p2.estimate

\* The heap leaves the order of elements the comparator ties unspecified:
\* the model resolves every tie towards the oldest or towards the newest
\* element, a choice made once for the whole run.
TiePolicies == {"oldest", "newest"}

\* does queue element x leave before a newly pushed element e
LeavesBefore(x, e, policy) ==
    IF policy = "oldest" THEN ~compareCube(x, e) ELSE compareCube(e, x)

\* The queue is kept as the sequence of its elements in the order pop()
\* removes them, so the elements leaving before a new element e are a
\* prefix of it.  InsertAt is the length of that prefix, which lies in
\* lo..hi (found by bisection).
RECURSIVE InsertAt(_, _, _, _, _)
InsertAt(q, e, policy, lo, hi) ==
    IF lo >= hi THEN lo
    ELSE LET mid == (lo + hi + 1) \div 2
         IN  IF LeavesBefore(q[mid], e, policy)
             THEN InsertAt(q, e, policy, mid, hi)
             ELSE InsertAt(q, e, policy, lo, mid - 1)

\* pq.push(e)
Push(q, e, policy) ==
    LET i == InsertAt(q, e, policy, 0, Len(q))
    IN  SubSeq(q, 1, i) \o <<e>> \o SubSeq(q, i + 1, Len(q))

\* pq.top()
Top(q) == Head(q)

\* pq.pop()
Pop(q) == Tail(q)

\* the heuristic estimate of a successor: node.estimate = 0
Estimate(c) == 0

\* a pruning test that also drops the successors exactly at the bound
OverBoundAtBound(cost, b) == cost >= b

\* a pruning test that lets through the successors one over the bound
OverBoundLate(cost, b) == cost > b + 1

\* does a successor of cost `cost` stay out of the queue under bound b
OverBound(cost, b) == cost > b

\* an update that keeps the larger of the two values
LowerNextBoundMax(nb, cost) == IF nb > cost THEN nb ELSE cost

\* next_bound = min(next_bound, cost)
LowerNextBound(nb, cost) == Min(nb, cost)

\* a probe that leaves the moved cube in place
RollBackSkipped(c, i) == c

\* node.cube.invert(curr_move)
RollBack(c, i) == Invert(c, i)

\* The for loop of IDAstar from move i on.  w is the loop's working state:
\* the node's cube and (already incremented) depth, the queue, the visited
\* map, next_bound, and as history the pruned costs, the cube the loop
\* began with (home) and whether every probe so far came back to it (back).
RECURSIVE Probe(_, _, _, _)
Probe(i, w, b, policy) ==
    IF i >= NumMoves THEN w
    ELSE
        LET moved == Move(w.cube, i)
            vis1 == Touch(w.vis, moved, FALSE)
            est == Estimate(moved)
            cost == w.depth + est
            w1 == IF vis1[moved] THEN w
                  ELSE IF OverBound(cost, b)
                       THEN [w EXCEPT !.nb = LowerNextBound(@, cost),
                                      !.pr = @ \cup {cost}]
                       ELSE [w EXCEPT !.q = Push(@, Node(moved, w.depth, est, i), policy)]
            restored == RollBack(moved, i)
        IN  Probe(i + 1, [w1 EXCEPT !.vis = vis1, !.cube = restored,
                                    !.back = @ /\ restored = w.home], b,
                  policy)

\* reverse(moves.begin(), moves.end())
Reverse(s) == [i \in 1..Len(s) |-> s[Len(s) + 1 - i]]

----------------------------------------------------------------------------
(* math.cpp: uint32_t arithmetic.  A uint32_t is held as the pair of its   *)
(* 16-bit halves <<high, low>>, of value high * 2^16 + low, so that no     *)
(* intermediate result leaves the range of the checker's integers.         *)

Half == 2^16
Byte == 2^8

\* the uint32_t of a small natural number
U32(x) == <<x \div Half, x % Half>>

Zero32 == <<0, 0>>
One32 == <<0, 1>>

\* a < b and a <= b on uint32_t
Less32(a, b) == a[1] < b[1] \/ (a[1] = b[1] /\ a[2] < b[2])
LessEq32(a, b) == ~Less32(b, a)

\* the full product <<high, low>> of two 16-bit halves
MulHalf(a, b) ==
    LET x == a * (b % Byte)
        y == a * (b \div Byte)
        s == x + ((y % Byte) * Byte)
    IN  <<(s \div Half) + (y \div Byte), s % Half>>

\* a * b on uint32_t: the product modulo 2^32
Mul32(a, b) ==
    LET ll == MulHalf(a[2], b[2])
        cross == MulHalf(a[1], b[2])[2] + MulHalf(a[2], b[1])[2]
    IN  <<(ll[1] + cross) % Half, ll[2]>>

\* a - b on uint32_t: the difference modulo 2^32
Sub32(a, b) ==
    LET borrow == IF a[2] < b[2] THEN 1 ELSE 0
    IN  <<(a[1] - b[1] - borrow + Half) % Half, (a[2] - b[2] + Half) % Half>>

\* bit i (0..31) of a
Bit32(a, i) == IF i >= 16 THEN (a[1] \div 2^(i - 16)) % 2 ELSE (a[2] \div 2^i) % 2

\* a / b on uint32_t for b # 0, by binary long division from bit i down:
\* qr is <<quotient, remainder>> of the bits above i.
RECURSIVE DivFrom(_, _, _, _)
DivFrom(i, a, b, qr) ==
    IF i < 0 THEN qr[1]
    ELSE
        LET q == qr[1]
            r == qr[2]
            r2 == <<r[1] * 2 + (r[2] * 2) \div Half,
                    ((r[2] * 2) % Half) + Bit32(a, i)>>
            q2 == <<(q[1] * 2 + (q[2] * 2) \div Half) % Half, (q[2] * 2) % Half>>
            fits == ~Less32(r2, b)
            borrow == IF r2[2] < b[2] THEN 1 ELSE 0
            r3 == <<r2[1] - b[1] - borrow, (r2[2] - b[2] + Half) % Half>>
        IN  IF fits THEN DivFrom(i - 1, a, b, <<<<q2[1], q2[2] + 1>>, r3>>)
            ELSE DivFrom(i - 1, a, b, <<q2, r2>>)

Div32(a, b) == DivFrom(31, a, b, <<Zero32, Zero32>>)

\* Division by zero is undefined behaviour: the division instruction traps
\* (x86) or yields 0 (AArch64).
Value(v) == [status |-> "value", val |-> v]
Trap == [status |-> "trap", val |-> Zero32]

DivOutcomes(a, b) ==
    IF b = Zero32 THEN {Trap, Value(Zero32)} ELSE {Value(Div32(a, b))}

\* the base case test of factorial: n <= 1
BaseCase(x) == LessEq32(x, One32)

\* n * factorial(n-1): the product x * (x-1) * ... * 2 modulo 2^32, taken
\* from x downwards with acc the product so far.  Once acc is 0 the
\* remaining factors leave it 0, which ends the recursion for the
\* arguments near 2^32 that n-k wraps to.
RECURSIVE FactorialFrom(_, _)
FactorialFrom(x, acc) ==
    IF BaseCase(x) THEN acc
    ELSE IF acc = Zero32 THEN Zero32
    ELSE FactorialFrom(Sub32(x, One32), Mul32(acc, x))

\* uint32_t factorial(uint32_t n)
factorial(x) == IF BaseCase(x) THEN One32 ELSE FactorialFrom(x, One32)

\* uint32_t pick(uint32_t n, uint32_t k): the outcomes of
\* factorial(n) / factorial(n-k)
pick(x, y) == DivOutcomes(factorial(x), factorial(Sub32(x, y)))

\* a guard that also sends n = k to 0
ChooseGuardLessEq(x, y) == LessEq32(x, y)

\* the guard of choose: n < k
ChooseGuard(x, y) == Less32(x, y)

\* uint32_t choose(uint32_t n, uint32_t k): the outcomes of
\* (n<k) ? 0 : factorial(n) / (factorial(n-k) * factorial(k))
choose(x, y) ==
    IF ChooseGuard(x, y) THEN {Value(Zero32)}
    ELSE DivOutcomes(factorial(x),
                     Mul32(factorial(Sub32(x, y)), factorial(y)))

----------------------------------------------------------------------------
(* Reference definitions for the properties *)

\* the cubes one move away from a cube of S
Successors(S) == {Move(c, m) : c \in S, m \in Moves}

\* exhaustive breadth-first search: the cubes reachable from c
RECURSIVE Closure(_, _)
Closure(frontier, seen) ==
    LET next == Successors(frontier) \ seen
    IN  IF next = {} THEN seen ELSE Closure(next, seen \cup next)

Solvable(c) == \E s \in Closure({c}, {c}) : isSolved(s)

\* exhaustive breadth-first search: the length of a shortest move sequence
\* from a solvable cube to a solved one
RECURSIVE BFS(_, _, _)
BFS(frontier, seen, d) ==
    IF \E c \in frontier : isSolved(c) THEN d
    ELSE LET next == Successors(frontier) \ seen
         IN  BFS(next, seen \cup next, d + 1)

Distance(c) == BFS({c}, {c}, 0)

\* what exhaustive search says of a root: is a solved cube reachable, and
\* in how many moves at least
Reference(c) ==
    IF Solvable(c) THEN [solvable |-> TRUE, dist |-> Distance(c)]
    ELSE [solvable |-> FALSE, dist |-> 0]

\* applying a move sequence, in order, to a cube
RECURSIVE ApplyMoves(_, _)
ApplyMoves(c, ms) ==
    IF ms = <<>> THEN c ELSE ApplyMoves(Move(c, Head(ms)), Tail(ms))

\* exhaustive breadth-first search: the cubes at 0, 1, 2, ... moves from the
\* first frontier, as a sequence of sets
RECURSIVE Layers(_, _)
Layers(frontier, seen) ==
    IF frontier = {} THEN <<>>
    ELSE LET next == Successors(frontier) \ seen
         IN  <<frontier>> \o Layers(next, seen \cup next)

\* the moves a backward walk over the map md reads on its way from cube c
\* to the root, in the order it reads them; a walk that leaves the map or
\* takes more than `fuel` steps ends with the non-move NumMoves
RECURSIVE WalkBack(_, _, _, _)
WalkBack(c, md, root, fuel) ==
    IF c = root THEN <<>>
    ELSE IF fuel = 0 \/ c \notin DOMAIN md THEN <<NumMoves>>
    ELSE <<md[c]>> \o WalkBack(Invert(c, md[c]), md, root, fuel - 1)

SetMin(S) == CHOOSE x \in S : \A y \in S : x <= y
Max(a, b) == IF a > b THEN a ELSE b

\* n! in unbounded arithmetic (n <= 12 keeps it within the checker's range)
RECURSIVE ExactFactorial(_)
ExactFactorial(x) == IF x = 0 THEN 1 ELSE x * ExactFactorial(x - 1)

----------------------------------------------------------------------------
(* Initial state: a freshly constructed solver holding any cube. *)

NoPair == [first |-> SolvedCube, second |-> 0]
NoRet == [cube |-> SolvedCube, val |-> 0, solved |-> FALSE]

\* Every cube without twist, and two twisted cubes (no move changes the
\* twist, so every twisted cube sees the same graph up to translation).
Roots == {c \in Cubes : c[4] = 0} \cup {<<0, 0, 0, 1>>, <<1, 2, 3, 1>>}

MathIdle ==
    /\ fn = "none"
    /\ arg_n = 0
    /\ arg_k = 0
    /\ result = [status |-> "none", val |-> Zero32]

SolverInit(roots) ==
    /\ rubiksCube \in roots
    /\ tie \in TiePolicies
    /\ moves = <<>>
    /\ move_done = EmptyMap
    /\ visited = EmptyMap
    /\ pq = <<>>
    /\ next_bound = 0
    /\ ibound = 0
    /\ site = "none"
    /\ bound = 0
    /\ p = NoPair
    /\ solved_cube = SolvedCube
    /\ curr_cube = SolvedCube
    /\ pc = "idle"
    /\ root0 = rubiksCube
    /\ ref = Reference(rubiksCube)
    /\ iters = 0
    /\ prevBound = 0
    /\ pruned = {}
    /\ startEmpty = TRUE
    /\ ret = NoRet
    /\ lastExh = 0
    /\ stalled = FALSE
    /\ solveCalls = 0
    /\ marks = <<>>
    /\ skipped = FALSE
    /\ rolledBack = TRUE

Init == SolverInit(Roots) /\ MathIdle

----------------------------------------------------------------------------
(* IDAstar(bound) *)

\* entry of IDAstar(b), called from call site s of solve()
CallIDAstar(b, s, vis, md) ==
    /\ pq' = <<Node(rubiksCube, 0, 0, 0)>>
    /\ next_bound' = DefaultNextBound
    /\ ibound' = b
    /\ site' = s
    /\ pruned' = {}
    /\ startEmpty' = (DOMAIN vis = {} /\ DOMAIN md = {})
    /\ marks' = <<>>
    /\ skipped' = FALSE
    /\ rolledBack' = TRUE
    /\ pc' = "search"

\* a solved return that carries next_bound in place of bound
SolvedResultNextBound(b, nb) == nb

\* the integer returned with a solved cube: make_pair(node.cube, bound)
SolvedResult(b, nb) == b

\* what solve() does with the pair an IDAstar call returns:
\* the first call is `auto p = IDAstar(bound)`; the call in the loop is
\* `bound = IDAstar(bound)`, which hands the returned integer to bound and
\* leaves p as the first call set it
TakeResult(s, cube, val) ==
    IF s = "first"
    THEN p' = [first |-> cube, second |-> val] /\ bound' = bound
    ELSE IF s = "loop"
    THEN bound' = val /\ p' = p
    ELSE UNCHANGED <<p, bound>>

Return(cube, val, solved) ==
    /\ TakeResult(site, cube, val)
    /\ ret' = [cube |-> cube, val |-> val, solved |-> solved]
    /\ lastExh' = IF solved THEN lastExh ELSE val
    /\ stalled' = (stalled \/ (~solved /\ lastExh = val))
    /\ pq' = <<>>
    /\ pc' = "check"

\* a test that never finds a node visited
SeenNever(map, c) == FALSE

\* visited[node.cube] as read by the test of line 63
Seen(map, c) == Touch(map, c, FALSE)[c]

\* a record of the inverse of the move done
RecordedMoveInverse(node) == InverseMove(node.mv)

\* the move recorded for a marked node: RubiksCube::MOVE(p.second)
RecordedMove(node) == node.mv

\* if (visited[node.cube]) continue;
PopVisited ==
    /\ pc = "search"
    /\ pq # <<>>
    /\ LET node == Top(pq)
       IN  /\ Seen(visited, node.cube)
           /\ pq' = Pop(pq)
    /\ skipped' = TRUE
    /\ UNCHANGED <<rubiksCube, moves, move_done, visited, next_bound, ibound,
                   site, bound, p, solved_cube, curr_cube, pc, tie, root0,
                   iters, prevBound, pruned, startEmpty, ret, lastExh,
                   stalled, solveCalls, ref, marks, rolledBack, mathVars>>

\* the popped node is new and solved: return make_pair(node.cube, bound)
PopSolved ==
    /\ pc = "search"
    /\ pq # <<>>
    /\ LET node == Top(pq)
       IN  /\ ~Seen(visited, node.cube)
           /\ isSolved(node.cube)
           /\ visited' = Store(visited, node.cube, TRUE)
           /\ move_done' = Store(move_done, node.cube, RecordedMove(node))
           /\ marks' = Append(marks, node)
           /\ Return(node.cube, SolvedResult(ibound, next_bound), TRUE)
    /\ UNCHANGED <<rubiksCube, moves, next_bound, ibound, site, solved_cube,
                   curr_cube, tie, root0, iters, prevBound, pruned,
                   startEmpty, solveCalls, ref, skipped, rolledBack, mathVars>>

\* the popped node is new and not solved: probe its 18 successors
PopExpand ==
    /\ pc = "search"
    /\ pq # <<>>
    /\ LET node == Top(pq)
           w0 == [cube |-> node.cube, depth |-> node.depth + 1,
                  q |-> Pop(pq),
                  vis |-> Store(visited, node.cube, TRUE),
                  nb |-> next_bound, pr |-> pruned,
                  home |-> node.cube, back |-> rolledBack]
           w == Probe(0, w0, ibound, tie)
       IN  /\ ~Seen(visited, node.cube)
           /\ ~isSolved(node.cube)
           /\ move_done' = Store(move_done, node.cube, RecordedMove(node))
           /\ marks' = Append(marks, node)
           /\ rolledBack' = w.back
           /\ visited' = w.vis
           /\ pq' = w.q
           /\ next_bound' = w.nb
           /\ pruned' = w.pr
    /\ UNCHANGED <<rubiksCube, moves, ibound, site, bound, p, solved_cube,
                   curr_cube, pc, tie, root0, iters, prevBound, startEmpty,
                   ret, lastExh, stalled, solveCalls, ref, skipped, mathVars>>

\* the queue is empty: return make_pair(rubiksCube, next_bound)
Exhausted ==
    /\ pc = "search"
    /\ pq = <<>>
    /\ Return(rubiksCube, next_bound, FALSE)
    /\ UNCHANGED <<rubiksCube, moves, move_done, visited, next_bound, ibound,
                   site, solved_cube, curr_cube, tie, root0, iters, prevBound,
                   pruned, startEmpty, solveCalls, ref, marks, skipped,
                   rolledBack, mathVars>>

----------------------------------------------------------------------------
(* solve() *)

\* int bound = 1; auto p = IDAstar(bound);
SolveStart ==
    /\ pc = "idle" \/ (pc = "done" /\ solveCalls < MaxSolves)
    /\ bound' = InitialBound
    /\ p' = NoPair
    /\ CallIDAstar(InitialBound, "first", visited, move_done)
    /\ root0' = rubiksCube
    /\ ref' = Reference(rubiksCube)
    /\ iters' = 1
    /\ prevBound' = 0
    /\ ret' = NoRet
    /\ lastExh' = 0
    /\ stalled' = FALSE
    /\ solveCalls' = solveCalls + 1
    /\ UNCHANGED <<rubiksCube, moves, move_done, visited, solved_cube,
                   curr_cube, tie, mathVars>>

\* while (p.second != bound)
LoopTest(pair, b) == pair.second # b

\* loop body: resetStructure(); bound = p.second; bound = IDAstar(bound);
Escalate ==
    /\ pc = "check"
    /\ LoopTest(p, bound)
    /\ moves' = <<>>
    /\ visited' = EmptyMap
    /\ move_done' = EmptyMap
    /\ bound' = p.second
    /\ CallIDAstar(p.second, "loop", EmptyMap, EmptyMap)
    /\ iters' = Min(iters + 1, MaxIters)
    /\ prevBound' = ibound
    /\ UNCHANGED <<rubiksCube, p, solved_cube, curr_cube, tie, root0, ret,
                   lastExh, stalled, solveCalls, ref, mathVars>>

\* loop exit: T solved_cube = p.first; T curr_cube = solved_cube;
BeginRecon ==
    /\ pc = "check"
    /\ ~LoopTest(p, bound)
    /\ solved_cube' = p.first
    /\ curr_cube' = p.first
    /\ pc' = "recon"
    /\ UNCHANGED <<rubiksCube, moves, move_done, visited, pq, next_bound,
                   ibound, site, bound, p, tie, root0, iters, prevBound,
                   pruned, startEmpty, ret, lastExh, stalled, solveCalls, ref,
                   marks, skipped, rolledBack, mathVars>>

\* one turn of while (curr_cube != rubiksCube)
ReconStep ==
    /\ pc = "recon"
    /\ curr_cube # rubiksCube
    /\ Len(moves) < MaxPath
    /\ LET md == Touch(move_done, curr_cube, 0)
           curr_move == md[curr_cube]
       IN  /\ move_done' = md
           /\ moves' = Append(moves, curr_move)
           /\ curr_cube' = Invert(curr_cube, curr_move)
    /\ UNCHANGED <<rubiksCube, visited, pq, next_bound, ibound, site, bound,
                   p, solved_cube, pc, tie, root0, iters, prevBound, pruned,
                   startEmpty, ret, lastExh, stalled, solveCalls, ref,
                   marks, skipped, rolledBack, mathVars>>

\* rubiksCube = solved_cube; reverse(moves); return moves;
Finish ==
    /\ pc = "recon"
    /\ curr_cube = rubiksCube
    /\ rubiksCube' = solved_cube
    /\ moves' = Reverse(moves)
    /\ pc' = "done"
    /\ UNCHANGED <<move_done, visited, pq, next_bound, ibound, site, bound,
                   p, solved_cube, curr_cube, tie, root0, iters, prevBound,
                   pruned, startEmpty, ret, lastExh, stalled, solveCalls, ref,
                   marks, skipped, rolledBack, mathVars>>

Next ==
    \/ SolveStart
    \/ PopVisited
    \/ PopSolved
    \/ PopExpand
    \/ Exhausted
    \/ Escalate
    \/ BeginRecon
    \/ ReconStep
    \/ Finish

Spec == Init /\ [][Next]_vars

----------------------------------------------------------------------------
(* IDAstar(bound) called once, on its own, on a solver just constructed:    *)
(* the root is a cube at 0, 1, 2 or 3 moves from solved or a twisted cube,  *)
(* the bound is one of 1..MaxBound or the default next_bound.               *)

UnitRoots ==
    {<<0, 0, 0, 0>>, <<1, 0, 0, 0>>, <<1, 0, 2, 0>>, <<1, 1, 1, 0>>,
     <<0, 0, 0, 1>>}

UnitBounds == (1..MaxBound) \cup {DefaultNextBound}

IDAstarInit == SolverInit(UnitRoots) /\ MathIdle

\* a call IDAstar(b) from outside solve(); its result goes to no variable
\* of solve()
UnitCall ==
    /\ pc = "idle"
    /\ \E b \in UnitBounds : CallIDAstar(b, "unit", visited, move_done)
    /\ UNCHANGED <<rubiksCube, moves, move_done, visited, bound, p,
                   solved_cube, curr_cube, tie, root0, iters, prevBound, ret,
                   lastExh, stalled, solveCalls, ref, mathVars>>

IDAstarNext ==
    \/ UnitCall
    \/ PopVisited
    \/ PopSolved
    \/ PopExpand
    \/ Exhausted

IDAstarSpec == IDAstarInit /\ [][IDAstarNext]_vars

----------------------------------------------------------------------------
(* The counting functions, each called once on arguments in 0..MaxN. *)

MathInit ==
    /\ SolverInit({SolvedCube})
    /\ tie = "oldest"
    /\ fn = "none"
    /\ arg_n \in 0..MaxN
    /\ arg_k \in 0..MaxN
    /\ result = [status |-> "none", val |-> Zero32]

CallFactorial ==
    /\ fn = "none"
    /\ fn' = "factorial"
    /\ result' = Value(factorial(U32(arg_n)))
    /\ UNCHANGED <<arg_n, arg_k, solverVars>>

CallPick ==
    /\ fn = "none"
    /\ fn' = "pick"
    /\ result' \in pick(U32(arg_n), U32(arg_k))
    /\ UNCHANGED <<arg_n, arg_k, solverVars>>

CallChoose ==
    /\ fn = "none"
    /\ fn' = "choose"
    /\ result' \in choose(U32(arg_n), U32(arg_k))
    /\ UNCHANGED <<arg_n, arg_k, solverVars>>

MathNext ==
    \/ CallFactorial
    \/ CallPick
    \/ CallChoose

MathSpec == MathInit /\ [][MathNext]_vars

----------------------------------------------------------------------------
(* Properties *)

\* C1: whenever solve() returns for a root from which a solved state is
\* reachable, applying the returned moves in order to that root gives a
\* solved state.
C1_SolutionValid ==
    (pc = "done" /\ ref.solvable) => isSolved(ApplyMoves(root0, moves))

\* C2: the length of the move sequence solve() returns equals the
\* breadth-first distance of the root from the solved state.
C2_Optimal ==
    (pc = "done" /\ ref.solvable) => Len(moves) = ref.dist

\* C3: on a freshly constructed solver whose root is solved, solve() makes a
\* single IDAstar call (no escalation) and returns the empty move sequence.
C3_NoOpSolve ==
    (solveCalls = 1 /\ isSolved(root0)) =>
        /\ iters <= 1
        /\ pc = "done" => moves = <<>>

C3_Witness ==
    /\ solveCalls = 1
    /\ isSolved(root0)
    /\ pc = "done"
    /\ iters = 1
    /\ moves = <<>>

\* C4: for a root at distance d from solved, solve() on a fresh solver makes
\* no more IDAstar calls than max(1, d), the calls with bounds 1..d, before
\* it returns.
C4_IterationsBounded ==
    (solveCalls = 1 /\ ref.solvable) => iters <= Max(1, ref.dist)

\* C5: the first IDAstar call of a solve() has bound 1 and every later call
\* has a bound strictly greater than the call before it.
C5_BoundProgress ==
    pc = "search" =>
        /\ iters = 1 => ibound = 1
        /\ iters >= 2 => ibound > prevBound

\* C6: for a root from which no solved state is reachable, solve() never
\* returns a move sequence, and once two successive unsolved IDAstar results
\* carry the same integer it stops with a failure instead of searching on.
C6_FailurePath ==
    (pc # "idle" /\ ~ref.solvable) =>
        /\ pc # "done"
        /\ stalled => pc \in {"check", "failed"}

\* C7: when an IDAstar call returns without a solved state and pruned at
\* least one successor, the integer returned is the least depth+estimate
\* among the successors it pruned.
C7_ExhaustedOutcome ==
    (pc = "check" /\ ~ret.solved /\ pruned # {}) => ret.val = SetMin(pruned)

C7_Witness ==
    /\ pc = "check"
    /\ ~ret.solved
    /\ pruned # {}
    /\ ret.val = ibound + 1

\* C8: for 0 <= k <= n <= 12 factorial(n) is n!, pick(n,k) is n!/(n-k)! and
\* choose(n,k) is n!/((n-k)! k!); choose(n,k) is 0 whenever n < k.
C8_Combinatorics ==
    /\ (fn = "factorial" /\ arg_n <= 12) =>
           result = Value(U32(ExactFactorial(arg_n)))
    /\ (fn = "pick" /\ arg_k <= arg_n /\ arg_n <= 12) =>
           result = Value(U32(ExactFactorial(arg_n)
                                  \div ExactFactorial(arg_n - arg_k)))
    /\ (fn = "choose" /\ arg_k <= arg_n /\ arg_n <= 12) =>
           result = Value(U32(ExactFactorial(arg_n)
                                  \div (ExactFactorial(arg_n - arg_k)
                                            * ExactFactorial(arg_k))))
    /\ (fn = "choose" /\ arg_n < arg_k) => result = Value(Zero32)
    /\ (fn = "factorial" /\ arg_n = 0) => result = Value(U32(1))
    /\ (fn = "pick" /\ arg_n = 5 /\ arg_k = 2) => result = Value(U32(20))
    /\ (fn = "choose" /\ arg_n = 5 /\ arg_k = 2) => result = Value(U32(10))
    /\ (fn = "choose" /\ arg_n = 3 /\ arg_k = 5) => result = Value(U32(0))

C8_Witness ==
    /\ fn = "choose"
    /\ arg_n = 12
    /\ arg_k = 5
    /\ result = Value(U32(792))

\* C9: outside the safe domain (n > 12, or k > n for pick) every call still
\* returns a value and none ends in an error.
C9_OutOfDomainReturns ==
    (fn # "none" /\ (arg_n > 12 \/ (fn = "pick" /\ arg_k > arg_n))) =>
        result.status = "value"

\* C10: an IDAstar call that began with empty visited and move_done maps
\* returns a solved state exactly when a solved state lies within `bound`
\* moves of the root.
C10_CompleteWithinBound ==
    (pc = "check" /\ startEmpty) =>
        /\ rubiksCube = root0
        /\ ret.solved <=> (ref.solvable /\ ref.dist <= ibound)
        /\ ret.solved => isSolved(ret.cube)

C10_Witness ==
    /\ pc = "check"
    /\ startEmpty
    /\ ret.solved
    /\ ibound = 1
    /\ ~isSolved(rubiksCube)

\* C11: whenever an IDAstar call returns without a solved state, solve()
\* clears the visited and move_done maps and makes its next call with the
\* integer that call returned as the bound.
C11_EscalationStep ==
    (pc = "search" /\ site = "loop") =>
        /\ startEmpty
        /\ ~ret.solved
        /\ ibound = ret.val

\* C12: when an IDAstar call returns a solved state, solve() stops calling
\* and walks back from the solved state that same call returned, over the
\* move_done map that call built.
C12_SolvedHandOff ==
    /\ (pc = "check" /\ ret.solved) => ~LoopTest(p, bound)
    /\ (pc = "recon" /\ ret.solved) =>
           /\ solved_cube = ret.cube
           /\ \A i \in 1..Len(marks) :
                  /\ marks[i].cube \in DOMAIN move_done
                  /\ move_done[marks[i].cube] = marks[i].mv

\* C13: every IDAstar call of every solve(), the first call of a solve() on
\* a solver used before included, begins with empty visited and move_done
\* maps.
C13_FreshMaps ==
    pc = "search" => startEmpty

\* C14: within one IDAstar call no cube is marked visited and expanded more
\* than once, however often it was pushed.
C14_SingleExpansion ==
    pc \in {"search", "check"} =>
        /\ Cardinality({marks[i].cube : i \in 1..Len(marks)}) = Len(marks)
        /\ \A i \in 1..Len(marks) :
               /\ marks[i].cube \in DOMAIN visited
               /\ visited[marks[i].cube]

C14_Witness ==
    /\ pc = "search"
    /\ skipped
    /\ Len(marks) >= 2

\* C15: every node an IDAstar call expands or holds in its queue has
\* depth + estimate <= bound, and every successor cost it pruned is above
\* the bound and not below next_bound.
C15_BoundPruning ==
    pc \in {"search", "check"} =>
        /\ \A i \in 1..Len(pq) : pq[i].depth + pq[i].estimate <= ibound
        /\ \A i \in 1..Len(marks) :
               marks[i].depth + marks[i].estimate <= ibound
        /\ \A c \in pruned : c > ibound /\ next_bound <= c

C15_Witness ==
    /\ pc = "search"
    /\ pruned # {}
    /\ Len(marks) >= 2
    /\ Len(pq) >= 1
    /\ pq[1].depth = ibound

\* node t has no greater depth + estimate than node x and, at equal
\* depth + estimate, no greater estimate
FirstOf(t, x) ==
    /\ t.depth + t.estimate <= x.depth + x.estimate
    /\ t.depth + t.estimate = x.depth + x.estimate => t.estimate <= x.estimate

\* C16: the node the next pop removes has the least depth + estimate of
\* the nodes in the queue and, among those of that cost, the least estimate.
\* The code's estimate is always 0, so a run never holds two nodes of equal
\* cost and different estimates: the second conjunct puts every pair of
\* nodes with depth and estimate in 0..MaxEst into an empty queue, in the
\* order and under the tie policy of the run's state, and looks at the top.
C16_FrontierOrder ==
    /\ (pc = "search" /\ pq # <<>>) =>
           LET t == Top(pq)
           IN  \A i \in 1..Len(pq) : FirstOf(t, pq[i])
    /\ \A d1, e1, d2, e2 \in 0..MaxEst :
           LET a == Node(rubiksCube, d1, e1, 0)
               b == Node(rubiksCube, d2, e2, 1)
               t == Top(Push(Push(<<>>, a, tie), b, tie))
           IN  FirstOf(t, a) /\ FirstOf(t, b)

C16_Witness ==
    /\ pc = "search"
    /\ Len(pq) >= 2
    /\ pq[1].depth < pq[Len(pq)].depth
    /\ Len(marks) >= 2

\* the i-th cube marked by the running call, with its recorded move undone,
\* is a cube the call marked before it, one level up
ChainedAt(i) ==
    LET s == marks[i]
        prev == Invert(s.cube, move_done[s.cube])
    IN  \E j \in 1..(i - 1) :
            marks[j].cube = prev /\ marks[j].depth = s.depth - 1

\* C17: within one IDAstar call, undoing move_done[s] on a visited cube s
\* other than the root gives a cube visited earlier in that call one level
\* up; so the backward walk from the solved cube reaches the root in exactly
\* depth(solved) steps and its moves, reversed, lead from root to solved.
C17_PredecessorChain ==
    /\ (pc = "search" /\ Len(marks) >= 2) => ChainedAt(Len(marks))
    /\ pc = "check" => \A i \in 2..Len(marks) : ChainedAt(i)
    /\ (pc = "check" /\ ret.solved) =>
           LET back == WalkBack(ret.cube, move_done, rubiksCube, Len(marks))
           IN  /\ Len(back) = marks[Len(marks)].depth
               /\ \A i \in 1..Len(back) : back[i] \in Moves
               /\ ApplyMoves(rubiksCube, Reverse(back)) = ret.cube

C17_Witness ==
    /\ pc = "check"
    /\ ret.solved
    /\ Len(marks) >= 3
    /\ marks[Len(marks)].depth = 2

\* C18: each probe of the for loop leaves the working cube equal to the
\* expanded node's cube, so every node in the queue is one move away from a
\* cube the call expanded; and no IDAstar call changes rubiksCube.
C18_ProbeRollBack ==
    pc \in {"search", "check"} =>
        /\ rolledBack
        /\ rubiksCube = root0
        /\ LET parents == {<<marks[j].cube, marks[j].depth>> :
                               j \in 1..Len(marks)}
           IN  \A i \in 1..Len(pq) :
                   pq[i].depth >= 1 =>
                       <<Invert(pq[i].cube, pq[i].mv), pq[i].depth - 1>>
                           \in parents

C18_Witness ==
    /\ pc = "search"
    /\ rolledBack
    /\ Len(marks) >= 2
    /\ Len(pq) >= 2
    /\ pq[1].depth = 2

\* C20: in an IDAstar call that began with empty maps, the depth at which a
\* cube is marked visited is the length of a shortest move sequence from
\* the root to it.
C20_ShortestFirstVisit ==
    (pc = "check" /\ startEmpty) =>
        LET layers == Layers({root0}, {root0})
        IN  \A i \in 1..Len(marks) :
                /\ marks[i].depth + 1 <= Len(layers)
                /\ marks[i].cube \in layers[marks[i].depth + 1]

C20_Witness ==
    /\ pc = "check"
    /\ startEmpty
    /\ Len(marks) >= 20
    /\ marks[Len(marks)].depth = 2

====
